---- MODULE Spec2Model ----
(***************************************************************************)
(* Model of soundbuf.cc: a ring buffer of samples shared by a producer     *)
(* thread (sndbuf_store) and a consumer thread (getNextFragment), guarded  *)
(* by one mutex and one condition variable.                                *)
(*                                                                         *)
(* The producer's input is the stream of samples 1, 2, 3, ...: the batch   *)
(* of a call of length len that starts after `stored` samples is           *)
(* <<stored+1, ..., stored+len>>.  The ring starts zero-filled (a static   *)
(* array), so a 0 in the ring is a position never written.                 *)
(***************************************************************************)
EXTENDS Integers, Sequences, FiniteSets, TLC

\* ---- bounds of the model ------------------------------------------------
NumSamples == 2
WordBits == 4
MaxLen == 5
MaxTotal == 18
LiveTotal == 10

\* ---- program constants --------------------------------------------------
RING_SIZE == NumSamples * 2

MIN_NEW_SAMPLES_Quarter(N) == N \div 4

MIN_NEW_SAMPLES(N) == N \div 2

\* unsigned int arithmetic is modulo 2^WordBits
UIntMod == 2 ^ WordBits

AddU(a, b) == (a + b) % UIntMod

\* `return ring_had;` from a function declared int: unsigned -> int
ToInt(u) == IF u >= UIntMod \div 2 THEN u - UIntMod ELSE u

VARIABLES
    ring,        \* sampleType ring[RING_SIZE], 1-based here
    ring_write,  \* index of the next sample to write, 0-based as in the code
    ring_has,    \* unsigned: samples stored since the last drain
    signalled,   \* 0 or 1
    mutex,       \* "free", "producer" or "consumer"
    cond_woken,  \* the waiter on cond has been woken and has to reacquire
    data,        \* the fragment buffer getNextFragment copies into
    p_pc,        \* position of the producer thread in sndbuf_store
    len,         \* the len argument of the current or last sndbuf_store
    c_pc,        \* position of the consumer thread in getNextFragment
    ring_had,    \* the local of getNextFragment; keeps the last call's value
    ret,         \* the int the last getNextFragment returned, 0 during a call
    \* history variables, read by the properties only
    stored,      \* samples passed to sndbuf_store so far (the stream position)
    sumLen,      \* exact sum of len over the stores counted since the last drain
    sigCount,    \* signals issued since the last drain
    sigMark,     \* stream position when the last signal was issued
    storeRan,    \* a store has run its critical section since the last drain
    spur,        \* the current getNextFragment call saw a spurious wake
    drainMark,   \* stream position when the returned fragment was copied
    drainSig,    \* sigMark of the signal that released the returned fragment
    drainSum,    \* sumLen when the returned count was taken
    prevLen      \* len of the store before the current or last one

vars == <<ring, ring_write, ring_has, signalled, mutex, cond_woken, data, p_pc,
          len, c_pc, ring_had, ret, stored, sumLen, sigCount, sigMark, storeRan,
          spur, drainMark, drainSig, drainSum, prevLen>>

shared == <<ring, ring_write, ring_has, signalled>>

ghostP == <<stored, sumLen, sigCount, sigMark, storeRan, prevLen>>

ghostC == <<spur, drainMark, drainSig, drainSum>>

\* ---- helpers --------------------------------------------------------------
Zeros(N) == [i \in 1..N |-> 0]

\* the batch of l samples that follows the first s samples of the stream
Batch(s, l) == [i \in 1..l |-> s + i]

\* memcpy(dst + dOff, src + sOff, n * sizeof(sampleType)), offsets 0-based
Memcpy(dst, dOff, src, sOff, n) ==
    [i \in DOMAIN dst |->
        IF i - 1 >= dOff /\ i - 1 < dOff + n THEN src[sOff + (i - dOff)]
        ELSE dst[i]]

\* ---- sndbuf_store ---------------------------------------------------------
new_ring_write_NoOffset(N, w, l) ==
    IF l >= N THEN 0
    ELSE LET remain == N - w
         IN  IF remain > l THEN l
             ELSE IF remain = l THEN 0
             ELSE l - remain

new_ring_write_NoWrap(N, w, l) ==
    IF l >= N THEN 0
    ELSE LET remain == N - w
         IN  IF remain >= l THEN w + l ELSE l - remain

new_ring_write(N, w, l) ==
    IF l >= N THEN 0
    ELSE LET remain == N - w
         IN  IF remain > l THEN w + l
             ELSE IF remain = l THEN 0
             ELSE l - remain

StoreCopy_FromStart(N, r, w, input) ==
    LET l == Len(input)
    IN  IF l >= N THEN Memcpy(r, 0, input, 0, N)
        ELSE LET remain == N - w
             IN  IF remain >= l THEN Memcpy(r, w, input, 0, l)
                 ELSE Memcpy(Memcpy(r, 0, input, remain, l - remain),
                             w, input, 0, remain)

StoreCopy_NoSecondPart(N, r, w, input) ==
    LET l == Len(input)
    IN  IF l >= N THEN Memcpy(r, 0, input, l - N, N)
        ELSE LET remain == N - w
             IN  IF remain >= l THEN Memcpy(r, w, input, 0, l)
                 ELSE Memcpy(r, w, input, 0, remain)

\* the ring after the copies of sndbuf_store
StoreCopy(N, r, w, input) ==
    LET l == Len(input)
    IN  IF l >= N
        THEN \* ip = input + len - RING_SIZE; op = ring; remain = RING_SIZE
             Memcpy(r, 0, input, l - N, N)
        ELSE LET remain == N - w
             IN  IF remain > l THEN Memcpy(r, w, input, 0, l)
                 ELSE IF remain = l THEN Memcpy(r, w, input, 0, remain)
                 ELSE \* part after wrapping first, then the part before it
                      Memcpy(Memcpy(r, 0, input, remain, l - remain),
                             w, input, 0, remain)

ShouldSignal_Always(N, has, sig) == has >= MIN_NEW_SAMPLES(N)

ShouldSignal(N, has, sig) == has >= MIN_NEW_SAMPLES(N) /\ sig = 0

\* ---- getNextFragment ------------------------------------------------------
Linearize_Swapped(N, d, r, w) ==
    LET chunk1 == N - w
    IN  IF w > 0 THEN Memcpy(Memcpy(d, 0, r, 0, w), w, r, w, chunk1)
        ELSE Memcpy(d, 0, r, w, chunk1)

\* data after the two memcpy of getNextFragment
Linearize(N, d, r, w) ==
    LET chunk1 == N - w
        d1 == Memcpy(d, 0, r, w, chunk1)
    IN  IF w > 0 THEN Memcpy(d1, chunk1, r, 0, w) ELSE d1

\* ---- initial state --------------------------------------------------------
Init ==
    /\ ring = Zeros(RING_SIZE)
    /\ ring_write = 0
    /\ ring_has = 0
    /\ signalled = 0
    /\ mutex = "free"
    /\ cond_woken = FALSE
    /\ data = Zeros(RING_SIZE)
    /\ p_pc = "idle"
    /\ len = 0
    /\ c_pc = "idle"
    /\ ring_had = 0
    /\ ret = 0
    /\ stored = 0
    /\ sumLen = 0
    /\ sigCount = 0
    /\ sigMark = 0
    /\ storeRan = FALSE
    /\ spur = FALSE
    /\ drainMark = 0
    /\ drainSig = 0
    /\ drainSum = 0
    /\ prevLen = 0

\* ---- the producer thread: sndbuf_store(input, len) ------------------------
\* a call with a batch of l samples, while the stream has at most t samples
ProducerCallUpTo(l, t) ==
    /\ p_pc \in {"idle", "done"}
    /\ stored + l <= t
    /\ p_pc' = "lock"
    /\ len' = l
    /\ prevLen' = len
    /\ UNCHANGED <<shared, mutex, cond_woken, data, c_pc, ring_had, ret,
                   stored, sumLen, sigCount, sigMark, storeRan, ghostC>>

ProducerCall(l) == ProducerCallUpTo(l, MaxTotal)

ProducerLock_NoMutex ==
    /\ p_pc = "lock"
    /\ mutex' = "producer"
    /\ p_pc' = "copy"
    /\ UNCHANGED <<shared, cond_woken, data, len, c_pc, ring_had, ret,
                   ghostP, ghostC>>

ProducerLock ==
    /\ p_pc = "lock"
    /\ mutex = "free"
    /\ mutex' = "producer"
    /\ p_pc' = "copy"
    /\ UNCHANGED <<shared, cond_woken, data, len, c_pc, ring_had, ret,
                   ghostP, ghostC>>

ProducerCopy ==
    /\ p_pc = "copy"
    /\ ring' = StoreCopy(RING_SIZE, ring, ring_write, Batch(stored, len))
    /\ ring_write' = new_ring_write(RING_SIZE, ring_write, len)
    /\ stored' = stored + len
    /\ storeRan' = TRUE
    /\ p_pc' = "count"
    /\ UNCHANGED <<ring_has, signalled, mutex, cond_woken, data, len, c_pc,
                   ring_had, ret, sumLen, sigCount, sigMark, prevLen, ghostC>>

ProducerCount ==
    /\ p_pc = "count"
    /\ ring_has' = AddU(ring_has, len)
    /\ sumLen' = sumLen + len
    /\ p_pc' = "signal"
    /\ UNCHANGED <<ring, ring_write, signalled, mutex, cond_woken, data, len,
                   c_pc, ring_had, ret, stored, sigCount, sigMark, storeRan,
                   prevLen, ghostC>>

ProducerSignal ==
    /\ p_pc = "signal"
    /\ IF ShouldSignal(RING_SIZE, ring_has, signalled)
       THEN /\ signalled' = 1
            \* SDL_CondSignal: wakes the waiter if there is one
            /\ cond_woken' = IF c_pc = "waiting" THEN TRUE ELSE cond_woken
            /\ sigCount' = sigCount + 1
            /\ sigMark' = stored
       ELSE UNCHANGED <<signalled, cond_woken, sigCount, sigMark>>
    /\ p_pc' = "unlock"
    /\ UNCHANGED <<ring, ring_write, ring_has, mutex, data, len, c_pc,
                   ring_had, ret, stored, sumLen, storeRan, prevLen, ghostC>>

ProducerUnlock ==
    /\ p_pc = "unlock"
    /\ mutex' = "free"
    /\ p_pc' = "done"
    /\ UNCHANGED <<shared, cond_woken, data, len, c_pc, ring_had, ret,
                   ghostP, ghostC>>

\* ---- the consumer thread: getNextFragment() -------------------------------
ConsumerCall ==
    /\ c_pc \in {"idle", "done"}
    /\ c_pc' = "lock"
    /\ ret' = 0
    /\ spur' = FALSE
    /\ drainSig' = 0
    /\ drainSum' = 0
    /\ UNCHANGED <<shared, mutex, cond_woken, data, p_pc, len, ring_had,
                   ghostP, drainMark>>

ConsumerLock_WaitFirst ==
    /\ c_pc = "lock"
    /\ mutex = "free"
    /\ cond_woken' = FALSE
    /\ c_pc' = "waiting"
    /\ UNCHANGED <<shared, mutex, data, p_pc, len, ring_had, ret, ghostP,
                   ghostC>>

ConsumerLock ==
    /\ c_pc = "lock"
    /\ mutex = "free"
    /\ mutex' = "consumer"
    /\ c_pc' = "test"
    /\ UNCHANGED <<shared, cond_woken, data, p_pc, len, ring_had, ret,
                   ghostP, ghostC>>

\* while (!signalled) SDL_CondWait(cond, mutex): the wait releases the mutex
ConsumerTest_NoRecheck ==
    /\ c_pc = "test"
    /\ IF signalled = 0 /\ ~spur
       THEN /\ mutex' = "free"
            /\ cond_woken' = FALSE
            /\ c_pc' = "waiting"
       ELSE /\ c_pc' = "clear"
            /\ UNCHANGED <<mutex, cond_woken>>
    /\ UNCHANGED <<shared, data, p_pc, len, ring_had, ret, ghostP, ghostC>>

ConsumerTest_HoldMutex ==
    /\ c_pc = "test"
    /\ IF signalled = 0
       THEN /\ cond_woken' = FALSE
            /\ c_pc' = "waiting"
       ELSE /\ c_pc' = "clear"
            /\ UNCHANGED cond_woken
    /\ UNCHANGED <<shared, mutex, data, p_pc, len, ring_had, ret, ghostP,
                   ghostC>>

ConsumerTest ==
    /\ c_pc = "test"
    /\ IF signalled = 0
       THEN /\ mutex' = "free"
            /\ cond_woken' = FALSE
            /\ c_pc' = "waiting"
       ELSE /\ c_pc' = "clear"
            /\ UNCHANGED <<mutex, cond_woken>>
    /\ UNCHANGED <<shared, data, p_pc, len, ring_had, ret, ghostP, ghostC>>

\* a wait may return without a signal
SpuriousWake ==
    /\ c_pc = "waiting"
    /\ ~cond_woken
    /\ cond_woken' = TRUE
    /\ spur' = TRUE
    /\ UNCHANGED <<shared, mutex, data, p_pc, len, c_pc, ring_had, ret,
                   ghostP, drainMark, drainSig, drainSum>>

\* the woken waiter reacquires the mutex and tests the loop condition again
ConsumerWake ==
    /\ c_pc = "waiting"
    /\ cond_woken
    /\ mutex = "free"
    /\ mutex' = "consumer"
    /\ cond_woken' = FALSE
    /\ c_pc' = "test"
    /\ UNCHANGED <<shared, data, p_pc, len, ring_had, ret, ghostP, ghostC>>

ConsumerClear_Keep ==
    /\ c_pc = "clear"
    /\ c_pc' = "copy"
    /\ sigCount' = 0
    /\ storeRan' = FALSE
    /\ drainSig' = sigMark
    /\ sigMark' = 0
    /\ UNCHANGED <<shared, mutex, cond_woken, data, p_pc, len, ring_had, ret,
                   stored, sumLen, prevLen, spur, drainMark, drainSum>>

ConsumerClear ==
    /\ c_pc = "clear"
    /\ signalled' = 0
    /\ c_pc' = "copy"
    /\ sigCount' = 0
    /\ storeRan' = FALSE
    /\ drainSig' = sigMark
    /\ sigMark' = 0
    /\ UNCHANGED <<ring, ring_write, ring_has, mutex, cond_woken, data, p_pc,
                   len, ring_had, ret, stored, sumLen, prevLen, spur,
                   drainMark, drainSum>>

ConsumerCopy_Clearing ==
    /\ c_pc = "copy"
    /\ data' = Linearize(RING_SIZE, data, ring, ring_write)
    /\ ring' = Zeros(RING_SIZE)
    /\ ring_write' = 0
    /\ drainMark' = stored
    /\ c_pc' = "take"
    /\ UNCHANGED <<ring_has, signalled, mutex, cond_woken, p_pc, len,
                   ring_had, ret, ghostP, spur, drainSig, drainSum>>

ConsumerCopy ==
    /\ c_pc = "copy"
    /\ data' = Linearize(RING_SIZE, data, ring, ring_write)
    /\ drainMark' = stored
    /\ c_pc' = "take"
    /\ UNCHANGED <<shared, mutex, cond_woken, p_pc, len, ring_had, ret,
                   ghostP, spur, drainSig, drainSum>>

ConsumerTake_NoReset ==
    /\ c_pc = "take"
    /\ ring_had' = ring_has
    /\ drainSum' = sumLen
    /\ sumLen' = 0
    /\ c_pc' = "unlock"
    /\ UNCHANGED <<shared, mutex, cond_woken, data, p_pc, len, ret, stored,
                   sigCount, sigMark, storeRan, prevLen, spur, drainMark,
                   drainSig>>

ConsumerTake ==
    /\ c_pc = "take"
    /\ ring_had' = ring_has
    /\ ring_has' = 0
    /\ drainSum' = sumLen
    /\ sumLen' = 0
    /\ c_pc' = "unlock"
    /\ UNCHANGED <<ring, ring_write, signalled, mutex, cond_woken, data, p_pc,
                   len, ret, stored, sigCount, sigMark, storeRan, prevLen, spur,
                   drainMark, drainSig>>

ConsumerUnlock ==
    /\ c_pc = "unlock"
    /\ mutex' = "free"
    /\ ret' = ToInt(ring_had)
    /\ c_pc' = "done"
    /\ UNCHANGED <<shared, cond_woken, data, p_pc, len, ring_had, ghostP,
                   ghostC>>

Next ==
    \/ \E l \in 0..MaxLen : ProducerCall(l)
    \/ ProducerLock
    \/ ProducerCopy
    \/ ProducerCount
    \/ ProducerSignal
    \/ ProducerUnlock
    \/ ConsumerCall
    \/ ConsumerLock
    \/ ConsumerTest
    \/ SpuriousWake
    \/ ConsumerWake
    \/ ConsumerClear
    \/ ConsumerCopy
    \/ ConsumerTake
    \/ ConsumerUnlock

Spec == Init /\ [][Next]_vars

TypeOK ==
    /\ ring \in [1..RING_SIZE -> 0..MaxTotal]
    /\ data \in [1..RING_SIZE -> 0..MaxTotal]
    /\ ring_write \in 0..(RING_SIZE - 1)
    /\ ring_has \in 0..(UIntMod - 1)
    /\ signalled \in {0, 1}
    /\ mutex \in {"free", "producer", "consumer"}
    /\ len \in 0..MaxLen

\* ---- fairness: each thread keeps running inside a call, the mutex and the
\* ---- condition variable hand over to a thread that keeps asking
ProducerRun == ProducerLock \/ ProducerCopy \/ ProducerCount \/ ProducerSignal
                 \/ ProducerUnlock

ConsumerRun == ConsumerTest \/ ConsumerClear \/ ConsumerCopy \/ ConsumerTake
                 \/ ConsumerUnlock

\* the same threads over a shorter stream
LiveNext ==
    \/ \E l \in 0..MaxLen : ProducerCallUpTo(l, LiveTotal)
    \/ ProducerLock
    \/ ProducerCopy
    \/ ProducerCount
    \/ ProducerSignal
    \/ ProducerUnlock
    \/ ConsumerCall
    \/ ConsumerLock
    \/ ConsumerTest
    \/ SpuriousWake
    \/ ConsumerWake
    \/ ConsumerClear
    \/ ConsumerCopy
    \/ ConsumerTake
    \/ ConsumerUnlock

LiveSpec ==
    /\ Init
    /\ [][LiveNext]_vars
    /\ WF_vars(ProducerRun)
    /\ WF_vars(ConsumerRun)
    /\ SF_vars(ConsumerLock)
    /\ SF_vars(ConsumerWake)

\* fairness for the producer: it keeps running and gets the mutex it keeps
\* asking for; the consumer only has to leave the critical sections it enters
ProducerBody == ProducerCopy \/ ProducerCount \/ ProducerSignal
                  \/ ProducerUnlock

StoreLiveSpec ==
    /\ Init
    /\ [][LiveNext]_vars
    /\ WF_vars(ProducerBody)
    /\ SF_vars(ProducerLock)
    /\ WF_vars(ConsumerRun)

\* ---- the two calls run to completion one after the other, on a ring of the
\* ---- size of the fragment below
ScenarioFirst == <<0, 0, 0, 1, 2, 3, 4, 5>>

ScenarioRing == <<9, 10, 3, 4, 5, 6, 7, 8>>

ScenarioSecond == <<3, 4, 5, 6, 7, 8, 9, 10>>

ScenarioSize == Len(ScenarioFirst)

ScenarioInit ==
    /\ ring = Zeros(ScenarioSize)
    /\ ring_write = 0
    /\ ring_has = 0
    /\ signalled = 0
    /\ mutex = "free"
    /\ cond_woken = FALSE
    /\ data = Zeros(ScenarioSize)
    /\ p_pc = "idle"
    /\ len = 0
    /\ c_pc = "idle"
    /\ ring_had = 0
    /\ ret = 0
    /\ stored = 0
    /\ sumLen = 0
    /\ sigCount = 0
    /\ sigMark = 0
    /\ storeRan = FALSE
    /\ spur = FALSE
    /\ drainMark = 0
    /\ drainSig = 0
    /\ drainSum = 0
    /\ prevLen = 0

\* sndbuf_store(input, l) from lock to unlock, on a ring of N samples
StoreAll(N, l) ==
    /\ stored + l <= MaxTotal
    /\ ring' = StoreCopy(N, ring, ring_write, Batch(stored, l))
    /\ ring_write' = new_ring_write(N, ring_write, l)
    /\ ring_has' = AddU(ring_has, l)
    /\ IF ShouldSignal(N, AddU(ring_has, l), signalled)
       THEN /\ signalled' = 1
            /\ sigCount' = sigCount + 1
            /\ sigMark' = stored + l
       ELSE UNCHANGED <<signalled, sigCount, sigMark>>
    /\ len' = l
    /\ prevLen' = len
    /\ stored' = stored + l
    /\ sumLen' = sumLen + l
    /\ storeRan' = TRUE
    /\ p_pc' = "done"
    /\ UNCHANGED <<mutex, cond_woken, data, c_pc, ring_had, ret, ghostC>>

\* getNextFragment() from lock to return, when it does not have to wait
TakeAll(N) ==
    /\ signalled = 1
    /\ signalled' = 0
    /\ data' = Linearize(N, data, ring, ring_write)
    /\ ring_had' = ring_has
    /\ ring_has' = 0
    /\ ret' = ToInt(ring_has)
    /\ c_pc' = "done"
    /\ sigCount' = 0
    /\ storeRan' = FALSE
    /\ drainSig' = sigMark
    /\ sigMark' = 0
    /\ drainMark' = stored
    /\ drainSum' = sumLen
    /\ sumLen' = 0
    /\ spur' = FALSE
    /\ UNCHANGED <<ring, ring_write, mutex, cond_woken, p_pc, len, stored,
                   prevLen>>

ScenarioNext ==
    \/ \E l \in 0..MaxLen : StoreAll(ScenarioSize, l)
    \/ TakeAll(ScenarioSize)

ScenarioSpec == ScenarioInit /\ [][ScenarioNext]_vars

\* ---- properties -----------------------------------------------------------
Threshold == RING_SIZE \div 2

\* the last N samples of N zeros followed by the first k samples of the stream
Window(N, k) == [i \in 1..N |-> IF k - N + i > 0 THEN k - N + i ELSE 0]

AfterCopy == p_pc \in {"count", "signal", "unlock", "done"}

InCall == c_pc \notin {"idle", "done"}

\* C1 as stated: the returned fragment is the window of the stream as it was
\* when the signal that released the call was issued, so no sample of a store
\* that ran after that signal is in it.
C1_FragmentAsOfSignal ==
    c_pc = "done" => data = Window(RING_SIZE, drainSig)

\* C1 amended: the returned fragment is the window of the stream as it was
\* when getNextFragment copied the ring under the mutex: the last RING_SIZE
\* samples of zeros followed by every sample stored before the copy, in order,
\* including those of stores that ran after the signal.
C1_FragmentAsOfDrain ==
    c_pc = "done" => data = Window(RING_SIZE, drainMark)

C1_Witness ==
    /\ c_pc = "done"
    /\ drainSig > 0
    /\ drainSig < drainMark
    /\ drainMark > RING_SIZE

\* C2 no-loss: when the stores since the last drain total n <= RING_SIZE, the
\* last n entries of the returned fragment are those n samples in order, and
\* the positions never written since construction read 0.
C2_NoLoss ==
    (c_pc = "done" /\ drainSum <= RING_SIZE) =>
        /\ \A i \in 1..drainSum :
              data[RING_SIZE - drainSum + i] = drainMark - drainSum + i
        /\ \A i \in 1..RING_SIZE : i <= RING_SIZE - drainMark => data[i] = 0

C2_Witness ==
    /\ c_pc = "done"
    /\ p_pc = "done"
    /\ prevLen = 2
    /\ len = 1
    /\ drainSum = 3
    /\ drainMark = 3
    /\ data[1] = 0
    /\ data[RING_SIZE] = 3

\* C3 overrun: after the copy of a store with len >= RING_SIZE the ring is
\* the last RING_SIZE samples of that batch and ring_write is 0, and a drain
\* with no further store returns exactly that.
C3_Overrun ==
    (AfterCopy /\ len >= RING_SIZE) =>
        /\ ring = Batch(stored - RING_SIZE, RING_SIZE)
        /\ ring_write = 0
        /\ (c_pc = "done" /\ drainMark = stored) =>
               data = Batch(stored - RING_SIZE, RING_SIZE)

C3_Witness ==
    /\ p_pc = "done"
    /\ len > RING_SIZE
    /\ prevLen \in 1..(RING_SIZE - 1)
    /\ stored = prevLen + len
    /\ c_pc = "done"
    /\ drainMark = stored

\* C4 wrap: after two consecutive stores, each shorter than RING_SIZE, that
\* together cross the end of the ring, a drain returns a fragment whose tail
\* is the first store's samples followed by the second's, cut to the last
\* RING_SIZE.
C4_Wrap ==
    (/\ AfterCopy
     /\ len < RING_SIZE
     /\ prevLen < RING_SIZE
     /\ ring_write < prevLen + len
     /\ c_pc = "done"
     /\ drainMark = stored) =>
        LET k == IF prevLen + len < RING_SIZE THEN prevLen + len ELSE RING_SIZE
        IN  \A i \in 1..k : data[RING_SIZE - k + i] = stored - k + i

C4_Witness ==
    /\ p_pc = "done"
    /\ c_pc = "done"
    /\ prevLen = RING_SIZE - 1
    /\ len = RING_SIZE - 1
    /\ ring_write = RING_SIZE - 2
    /\ stored = 2 * RING_SIZE - 2
    /\ drainMark = stored

\* C5 coalesced wake: between two drains (and before the first) the stores
\* signal at most once; signalled = 1 means that signal has been issued.
C5_CoalescedWake ==
    /\ sigCount <= 1
    /\ signalled = 1 => sigCount = 1

C5_Witness ==
    /\ p_pc = "unlock"
    /\ signalled = 1
    /\ sigCount = 1
    /\ sigMark < stored
    /\ len > 0
    /\ prevLen >= Threshold
    /\ ring_has >= Threshold

\* C6 as stated: every count getNextFragment takes is >= Threshold.
C6_CountAtLeastThreshold ==
    c_pc = "done" => ring_had >= Threshold

\* C6 amended: getNextFragment returns only when at least Threshold samples
\* have been stored since the previous drain, spurious wakes or not; the
\* count it returns is >= Threshold as long as that sum is below half the
\* unsigned range.
C6_NoPrematureReturn ==
    c_pc = "done" =>
        /\ drainSum >= Threshold
        /\ drainSum < UIntMod \div 2 => ret >= Threshold

C6_Witness ==
    /\ c_pc = "done"
    /\ spur
    /\ drainSum = Threshold
    /\ ret = Threshold

\* C7 drain reset: with no store since the last drain signalled is 0, so a
\* getNextFragment call leaves its wait loop only after a store has run.
C7_DrainReset ==
    /\ ~storeRan => signalled = 0
    /\ c_pc = "clear" => storeRan

C7_Witness ==
    /\ c_pc = "waiting"
    /\ spur
    /\ ~storeRan
    /\ drainMark > 0
    /\ ring_had >= 2 * Threshold
    /\ ring_has = 0

\* C8 as stated: the count returned is the sum of len over the stores since
\* the previous drain, reduced modulo 2^WordBits.
C8_CountIsSumModulo ==
    c_pc = "done" => ret = drainSum % UIntMod

\* C9 wake liveness: once ring_has is at least Threshold, a getNextFragment
\* call in progress returns.
C9_WakeLiveness ==
    (ring_has >= Threshold /\ InCall) ~> (c_pc = "done")

C9_Witness ==
    /\ c_pc = "done"
    /\ drainSum >= Threshold
    /\ drainSig > 0

\* C10 as stated: getNextFragment does not return while fewer than RING_SIZE
\* samples have been stored since the last drain.
C10_BlocksBelowCapacity ==
    c_pc = "done" => drainSum >= RING_SIZE

\* C10 amended: getNextFragment stays in its wait loop while fewer than
\* RING_SIZE / 2 samples have been stored since the last drain.
C10_BlocksBelowThreshold ==
    c_pc \in {"clear", "copy", "take"} => sumLen >= RING_SIZE \div 2

C10_Witness ==
    /\ c_pc = "take"
    /\ sumLen = RING_SIZE \div 2
    /\ sumLen < RING_SIZE

PInCS == p_pc \in {"copy", "count", "signal", "unlock"}

CInCS == c_pc \in {"test", "clear", "copy", "take", "unlock"}

\* C11 store never suspends on the consumer: a consumer blocked in the wait
\* does not hold the mutex, and a store that asks for the mutex completes.
C11_StoreCompletes ==
    /\ [](c_pc = "waiting" => mutex # "consumer")
    /\ (p_pc = "lock") ~> (p_pc = "done")

C11_Witness ==
    /\ c_pc = "waiting"
    /\ ~cond_woken
    /\ signalled = 0
    /\ p_pc = "done"
    /\ len > 0
    /\ storeRan

\* C12 the scenario on a fresh ring of 8: store(1..5) leaves ring_write = 5,
\* ring_has = 5 and signalled = 1; the drain returns 0,0,0,1,2,3,4,5 and 5;
\* store(6..10) leaves the ring 9,10,3,4,5,6,7,8 with ring_write = 2; the next
\* drain returns 3..10 and 5.
C12_Scenario ==
    /\ (stored = 5 /\ len = 5 /\ c_pc = "idle") =>
          ring_write = 5 /\ ring_has = 5 /\ signalled = 1
    /\ (stored = 5 /\ len = 5 /\ c_pc = "done") =>
          data = ScenarioFirst /\ ret = 5 /\ ring_has = 0 /\ signalled = 0
    /\ (stored = 10 /\ len = 5 /\ prevLen = 5 /\ drainMark = 5) =>
          ring = ScenarioRing /\ ring_write = 2 /\ ring_has = 5
    /\ (stored = 10 /\ len = 5 /\ prevLen = 5 /\ drainMark = 10 /\ drainSum = 5)
          => data = ScenarioSecond /\ ret = 5

C12_Witness ==
    /\ stored = 10
    /\ len = 5
    /\ prevLen = 5
    /\ drainMark = 10
    /\ drainSum = 5
    /\ ring = ScenarioRing
    /\ data = ScenarioSecond

\* C13 as stated: whenever the mutex is free, signalled = 1 exactly when
\* ring_has >= Threshold, also after ring_has has wrapped.
C13_ReadyIffCountAtThreshold ==
    mutex = "free" => (signalled = 1 <=> ring_has >= Threshold)

\* C13 amended: whenever the mutex is free, ring_has >= Threshold implies
\* signalled = 1, and signalled = 1 implies that at least Threshold samples
\* have been stored since the last drain; ring_has >= Threshold follows from
\* signalled = 1 only while that sum is below 2^WordBits.
C13_ReadyInvariant ==
    mutex = "free" =>
        /\ ring_has >= Threshold => signalled = 1
        /\ signalled = 1 => sumLen >= Threshold
        /\ (signalled = 1 /\ sumLen < UIntMod) => ring_has >= Threshold

C13_Witness ==
    /\ mutex = "free"
    /\ signalled = 1
    /\ sumLen >= UIntMod
    /\ ring_has < Threshold

\* the ring read from ring_write round to ring_write - 1
LinearRing ==
    [i \in 1..RING_SIZE |-> ring[((ring_write + i - 1) % RING_SIZE) + 1]]

\* C14 atomic snapshot: the critical sections of sndbuf_store and
\* getNextFragment never overlap; the fragment copied is the linearized ring
\* of a state with no store under way, and the count taken with it is the
\* number of samples stored between the previous fragment and this one.
C14_AtomicSnapshot ==
    /\ ~(PInCS /\ CInCS)
    /\ c_pc \in {"take", "unlock"} => data = LinearRing /\ drainMark = stored
    /\ mutex = "free" => stored - sumLen = drainMark

C14_Witness ==
    /\ c_pc = "take"
    /\ p_pc = "lock"
    /\ len > 0
    /\ prevLen > 0
    /\ ring_write > 0
    /\ stored > RING_SIZE

\* C15 latest-C window: in every state the linearized ring is the last
\* RING_SIZE samples of RING_SIZE zeros followed by every sample passed to
\* sndbuf_store so far, whether or not signalled is set.
C15_LatestWindow ==
    LinearRing = Window(RING_SIZE, stored)

C15_Witness ==
    /\ AfterCopy
    /\ signalled = 1
    /\ sigMark > 0
    /\ stored - sigMark > RING_SIZE
    /\ sumLen > RING_SIZE
    /\ len \in 1..(RING_SIZE - 1)

\* C16 ring_write is always an index of the ring.
C16_WriteCursorInRange ==
    ring_write \in 0..(RING_SIZE - 1)

C16_Witness ==
    /\ p_pc = "count"
    /\ ring_write = 0
    /\ len \in 1..(RING_SIZE - 1)
    /\ prevLen \in 1..(RING_SIZE - 1)
    /\ stored > RING_SIZE

\* C17 the copy step of a store with len < RING_SIZE leaves ring_write at
\* (old ring_write + len) mod RING_SIZE, and one with len >= RING_SIZE at 0.
C17_WriteCursorUpdate ==
    [][(p_pc = "copy" /\ p_pc' = "count") =>
          ring_write' = IF len < RING_SIZE
                        THEN (ring_write + len) % RING_SIZE
                        ELSE 0]_vars

C17_Witness ==
    /\ p_pc = "count"
    /\ len < RING_SIZE
    /\ ring_write > 0
    /\ ring_write < len

\* C18 drain frame: no step of getNextFragment changes ring or ring_write;
\* of the shared state it changes only signalled, to 0, and ring_has, to 0.
C18_DrainFrame ==
    [][c_pc' # c_pc =>
          /\ ring' = ring
          /\ ring_write' = ring_write
          /\ signalled' # signalled => signalled' = 0
          /\ ring_has' # ring_has => ring_has' = 0]_vars

C18_Witness ==
    /\ c_pc = "done"
    /\ mutex = "free"
    /\ drainMark = stored
    /\ ring_write > 0
    /\ LinearRing = data
    /\ ring_had > 0
    /\ ring_has = 0
    /\ signalled = 0

\* C19 signalled goes from 0 to 1 only in the signal step of a store that
\* left ring_has >= Threshold, and from 1 to 0 only in getNextFragment after
\* its wait loop; every drain follows exactly one signal issued since the
\* drain before it, so the returns never outnumber the signals.
C19_ReadyStateMachine ==
    /\ [](c_pc = "clear" => sigCount = 1)
    /\ [][/\ (signalled = 0 /\ signalled' = 1) =>
               (p_pc = "signal" /\ p_pc' = "unlock" /\ ring_has >= Threshold)
          /\ (signalled = 1 /\ signalled' = 0) =>
               (c_pc = "clear" /\ c_pc' = "copy")]_vars

C19_Witness ==
    /\ c_pc = "copy"
    /\ spur
    /\ signalled = 0
    /\ drainSig > 0
    /\ drainMark > 0

\* C20 as stated: when a fragment is copied and the count about to be
\* returned with it is n <= RING_SIZE, its first RING_SIZE - n entries are
\* the last RING_SIZE - n of the fragment returned before, and its last n
\* entries are the samples stored since.
C20_OverlapByCount ==
    [][(c_pc = "copy" /\ c_pc' = "take" /\ drainMark > 0
            /\ ring_has <= RING_SIZE) =>
          /\ \A i \in 1..(RING_SIZE - ring_has) : data'[i] = data[ring_has + i]
          /\ \A i \in 1..ring_has :
                data'[RING_SIZE - ring_has + i] = stored - ring_has + i]_vars

\* C20 amended: the same with n the exact number of samples stored between
\* the two drains, which the count equals unless ring_has has wrapped.
C20_OverlapBySum ==
    [][(c_pc = "copy" /\ c_pc' = "take" /\ drainMark > 0
            /\ sumLen <= RING_SIZE) =>
          /\ \A i \in 1..(RING_SIZE - sumLen) : data'[i] = data[sumLen + i]
          /\ \A i \in 1..sumLen :
                data'[RING_SIZE - sumLen + i] = stored - sumLen + i]_vars

C20_Witness ==
    /\ c_pc = "done"
    /\ drainSum = RING_SIZE - 1
    /\ ret = drainSum
    /\ drainMark - drainSum > RING_SIZE
====
